---- MODULE Spec2Model ----
(***************************************************************************)
(* Continuous audio capture and chunked transcription pipeline of the      *)
(* speech-to-text application.                                             *)
(*                                                                         *)
(*   AudioProcessor                 chunk recorder          (part_005)     *)
(*   WhisperTurboTranscriber        chunk queue + worker    (part_001)     *)
(*   TransformersWhisperTranscriber chunk queue + pipeline  (word-cloud.js)*)
(*   WebSpeechTranscriber           continuous recognition  (part_002)     *)
(*                                                                         *)
(* Everything runs on one event loop: every action below is one task of    *)
(* that loop (a public method call, an event handler, a timer callback or  *)
(* the continuation of an awaited promise), executed to completion.        *)
(* Handlers are operators from a world record w to a world record, so that *)
(* a handler calling another one is operator application.                  *)
(***************************************************************************)
EXTENDS Integers, Sequences, FiniteSets, TLC

VARIABLES
    backend,  \* which transcriber class the object under study is
    tr,       \* the transcriber object's fields
    ap,       \* the AudioProcessor object's fields
    env,      \* browser side: tracks, MediaRecorder, worker, timers, session
    out,      \* the callbacks invoked by the last task, in order
    op,       \* the task that ran last
    hist,     \* history: counters and the order of dispatches
    pcm,      \* a decoded audio buffer on its way through convertBlobToPCM
    app       \* the application around the transcriber: UI status, VU meter

vars == <<backend, tr, ap, env, out, op, hist, pcm, app>>

(***************************************************************************)
(* Bounds of the model.                                                    *)
(***************************************************************************)
MaxAudio == 3      \* units of audio the microphone delivers in a run
MaxStarts == 2     \* calls of start() in a run
MaxPending == 2    \* start() calls suspended at the same await
MaxFinal == 3      \* result events stop once finalTranscript is this long

(***************************************************************************)
(* Program constants.                                                      *)
(***************************************************************************)
restartDelay == 300     \* WebSpeechTranscriber.restartDelay, ms
RetryDelay == 1000      \* delay of the second restart attempt, ms

(***************************************************************************)
(* Text.  A text is a sequence of characters; " " is the whitespace        *)
(* character, every other token stands for a run of non-blank characters.  *)
(***************************************************************************)
SP == " "
NL == "\n"

\* the characters String.prototype.trim() removes
Whitespace == { SP, NL }
ProcessingNext == <<"(Processing next chunk...)">>

Last(s) == s[Len(s)]

endsWithSpace(s) == Len(s) > 0 /\ Last(s) = SP

RECURSIVE trimStart(_)
trimStart(s) ==
    IF s # <<>> /\ Head(s) \in Whitespace THEN trimStart(Tail(s)) ELSE s

RECURSIVE trimEnd(_)
trimEnd(s) ==
    IF s # <<>> /\ Last(s) \in Whitespace
    THEN trimEnd(SubSeq(s, 1, Len(s) - 1))
    ELSE s

trim(s) == trimEnd(trimStart(s))

RECURSIVE SumSeq(_)
SumSeq(s) == IF s = <<>> THEN 0 ELSE Head(s) + SumSeq(Tail(s))

RemoveAt(s, i) == SubSeq(s, 1, i - 1) \o SubSeq(s, i + 1, Len(s))

(***************************************************************************)
(* Callbacks to the collaborators (onStatusChange, onError,                *)
(* onTranscriptUpdate, onLoadingChange), recorded in out.                  *)
(***************************************************************************)
Ev(cb, v, f, i) == [cb |-> cb, v |-> v, final |-> f, interim |-> i]

\* with the application's callbacks installed, onStatusChange is
\* UIController.updateStatus: the status indicator shows the status
onStatusChange(w, status) ==
    [w EXCEPT !.out = Append(@, Ev("status", status, <<>>, <<>>)),
              !.app.status = IF w.app.wired THEN status ELSE @]

onError(w, message) ==
    [w EXCEPT !.out = Append(@, Ev("error", message, <<>>, <<>>))]

onTranscriptUpdate(w, f, i) ==
    [w EXCEPT !.out = Append(@, Ev("update", "", f, i))]

onLoadingChange(w, v) ==
    [w EXCEPT !.out = Append(@, Ev("loading", v, <<>>, <<>>))]

Emitted(cb, v) == \E k \in 1..Len(out) : out[k].cb = cb /\ out[k].v = v

EmittedCb(cb) == \E k \in 1..Len(out) : out[k].cb = cb

(***************************************************************************)
(* Construction.                                                           *)
(***************************************************************************)
Backends == {"turbo", "transformers", "webspeech"}
ChunkBackends == {"turbo", "transformers"}

NewTranscriber(b) ==
    [ isRecording |-> FALSE,
      isProcessing |-> FALSE,
      modelLoaded |-> FALSE,
      finalTranscript |-> <<>>,
      interimTranscript |-> <<>>,
      processingQueue |-> <<>>,
      audioProcessor |-> FALSE,        \* null
      worker |-> (b = "turbo"),        \* initWorker()
      pipeline |-> FALSE,              \* null
      recognition |-> (b = "webspeech"),
      shouldRestart |-> FALSE,
      restartTimeout |-> "null" ]

NewAudioProcessor ==
    [ mediaRecorder |-> "null",        \* null, or the recorder's state
      audioContext |-> FALSE,
      stream |-> FALSE,
      isRecording |-> FALSE,
      chunks |-> <<>>,
      chunkTimer |-> "null" ]          \* null, armed, or fired (stale handle)

NewEnv ==
    [ liveTracks |-> 0,       \* streams acquired whose tracks were not stopped
      mrBuffer |-> 0,         \* audio buffered inside the running recorder
      mrEvents |-> <<>>,      \* dataavailable+stop events not yet delivered
      decoding |-> <<>>,      \* blobs inside convertBlobToPCM
      inflight |-> {},        \* chunks handed to the backend, not completed
      loading |-> 0,          \* 'load' requests the worker has not answered
      loadWaiters |-> 0,      \* start() calls awaiting loadModel
      loadOverdue |-> 0,      \* of these, past the maximum load time: never settled
      acquireWaiters |-> 0,   \* startRecording()/start() awaiting getUserMedia
      recState |-> "inactive",   \* inactive, live, stopping, ending
      startPending |-> FALSE,    \* the session's 'start' event is due
      trackEnded |-> FALSE,      \* the track of the recorder's stream ended
      timers |-> <<>> ]          \* pending restart and retry timers

\* no buffer is being converted: the conversion is modelled by its outcome
\* (AP_onstopConverted) wherever the sample values do not matter
NoPcm == [stage |-> "none", channels |-> <<>>, sampleRate |-> 16000,
          toRate |-> 16000, result |-> <<>>]

NoCycle == [attempts |-> 0, threw |-> 0, at |-> 0, clean |-> FALSE]

NewHist ==
    [ nextSeq |-> 1,          \* sequence number of the next chunk delivered
      dispatched |-> <<>>,    \* sequence numbers in the order of dispatch
      audioIn |-> 0,          \* audio delivered by the microphone so far
      starts |-> 0,           \* calls of start() so far
      destroyed |-> FALSE,    \* destroy() was called
      stopped |-> FALSE,      \* stop() returned, start() not called since
      fatal |-> FALSE,        \* fatal error handled, no start() under way since
      cycle |-> NoCycle ]     \* restart attempts since the last session end

\* the application object and its VUMeter; wired: the application has
\* installed its callbacks on the transcriber (the callbacks are null after
\* construction)
NewApp(wired) ==
    [ wired |-> wired,
      status |-> "ready",        \* what the status indicator shows
      isRecording |-> FALSE,     \* LectureTranscriberApp.isRecording
      vuPending |-> 0,           \* VUMeter.start() calls awaiting getUserMedia
      vuStream |-> FALSE,        \* VUMeter.stream is set
      vuTracks |-> 0,            \* streams the VU meter acquired, not stopped
      vuAnimating |-> FALSE ]    \* the requestAnimationFrame loop runs

W == [tr |-> tr, ap |-> ap, env |-> env, out |-> <<>>, hist |-> hist,
      app |-> app, ret |-> "none"]

Commit(w, name) ==
    /\ tr' = w.tr
    /\ ap' = w.ap
    /\ env' = w.env
    /\ out' = w.out
    /\ hist' = w.hist
    /\ op' = [name |-> name, ret |-> w.ret]
    /\ app' = w.app
    /\ UNCHANGED <<backend, pcm>>

Return(w, v) == [w EXCEPT !.ret = v]

(***************************************************************************)
(* The transcription backend of the chunk queue.                           *)
(*   turbo:        worker.postMessage({type: 'transcribe'}); the worker    *)
(*                 answers each request with one 'result' or one 'error'.  *)
(*   transformers: the promise returned by this.pipeline(pcmData, ...).    *)
(***************************************************************************)
Tok(c) == ToString(c.seq)

\* what the model may return for chunk c: blank text, text, padded text
ResultTexts(c) == { <<SP>>, <<Tok(c)>>, <<SP, Tok(c), SP>> }

Dispatch(w, pcmData) ==
    [w EXCEPT !.env.inflight = @ \cup {pcmData},
              !.hist.dispatched = Append(@, pcmData.seq)]

\* variant: the transcribed text replaces the final transcript
appendTranscribed_overwrite(w, text) ==
    LET transcribedText == trim(text)
    IN  IF transcribedText # <<>>
        THEN onTranscriptUpdate(
                 [w EXCEPT !.tr.finalTranscript = transcribedText],
                 transcribedText,
                 IF Len(w.tr.processingQueue) > 0 THEN ProcessingNext ELSE <<>>)
        ELSE w

\* lines shared by handleTranscriptionResult and processQueue:
\* "Add to final transcript" and "Update UI"
appendTranscribed(w, text) ==
    LET transcribedText == trim(text)
        sep == IF Len(w.tr.finalTranscript) > 0
                  /\ ~endsWithSpace(w.tr.finalTranscript)
               THEN <<SP>> ELSE <<>>
        final == w.tr.finalTranscript \o sep \o transcribedText
    IN  IF transcribedText # <<>>
        THEN onTranscriptUpdate(
                 [w EXCEPT !.tr.finalTranscript = final],
                 final,
                 IF Len(w.tr.processingQueue) > 0 THEN ProcessingNext ELSE <<>>)
        ELSE w

(***************************************************************************)
(* WhisperTurboTranscriber: the chunk queue.                               *)
(***************************************************************************)
\* variant: processQueue takes the newest chunk (pop) instead of the oldest
Turbo_processQueue_lifo(w) ==
    IF Len(w.tr.processingQueue) = 0
    THEN LET w1 == [w EXCEPT !.tr.isProcessing = FALSE]
         IN  IF ~w1.tr.isRecording THEN onStatusChange(w1, "stopped") ELSE w1
    ELSE LET w1 == onStatusChange([w EXCEPT !.tr.isProcessing = TRUE],
                                  "processing")
             pcmData == Last(w1.tr.processingQueue)
             w2 == [w1 EXCEPT !.tr.processingQueue =
                                  SubSeq(@, 1, Len(@) - 1)]
         IN  IF w2.tr.worker
             THEN Dispatch(w2, pcmData)
             ELSE w2

Turbo_processQueue(w) ==
    IF Len(w.tr.processingQueue) = 0
    THEN LET w1 == [w EXCEPT !.tr.isProcessing = FALSE]
         IN  IF ~w1.tr.isRecording THEN onStatusChange(w1, "stopped") ELSE w1
    ELSE LET w1 == onStatusChange([w EXCEPT !.tr.isProcessing = TRUE],
                                  "processing")
             pcmData == Head(w1.tr.processingQueue)
             w2 == [w1 EXCEPT !.tr.processingQueue = Tail(@)]
         IN  IF w2.tr.worker
             THEN Dispatch(w2, pcmData)
             ELSE w2        \* this.worker is null: postMessage throws

\* variant: onChunkReady starts the queue without testing isProcessing
Turbo_onChunkReady_unguarded(w, pcmData) ==
    Turbo_processQueue([w EXCEPT !.tr.processingQueue = Append(@, pcmData)])

Turbo_onChunkReady(w, pcmData) ==
    LET w1 == [w EXCEPT !.tr.processingQueue = Append(@, pcmData)]
    IN  IF ~w1.tr.isProcessing THEN Turbo_processQueue(w1) ELSE w1

Turbo_handleTranscriptionResult(w, text) ==
    Turbo_processQueue(appendTranscribed(w, text))

\* variant: the 'error' handler reports the error and leaves the queue alone
Turbo_onWorkerError_halts(w) ==
    [onError(w, "Transcription failed") EXCEPT !.tr.isProcessing = FALSE]

Turbo_onWorkerError(w) ==
    LET w1 == onError(w, "Transcription failed")
    IN  Turbo_processQueue([w1 EXCEPT !.tr.isProcessing = FALSE])

(***************************************************************************)
(* TransformersWhisperTranscriber: the chunk queue.  processQueue suspends *)
(* at "await this.pipeline(...)"; with this.pipeline null the call throws  *)
(* inside the try block and the handler goes on to the next chunk.         *)
(***************************************************************************)
RECURSIVE TF_processQueue(_)
TF_processQueue(w) ==
    IF Len(w.tr.processingQueue) = 0
    THEN LET w1 == [w EXCEPT !.tr.isProcessing = FALSE]
         IN  IF ~w1.tr.isRecording THEN onStatusChange(w1, "stopped") ELSE w1
    ELSE LET w1 == onStatusChange([w EXCEPT !.tr.isProcessing = TRUE],
                                  "processing")
             pcmData == Head(w1.tr.processingQueue)
             w2 == [w1 EXCEPT !.tr.processingQueue = Tail(@)]
         IN  IF w2.tr.pipeline
             THEN Dispatch(w2, pcmData)
             ELSE TF_processQueue(
                      onError(w2, "Error transcribing audio chunk"))

\* variant: onChunkReady queues the chunk and leaves the queue idle
TF_onChunkReady_queuesOnly(w, pcmData) ==
    [w EXCEPT !.tr.processingQueue = Append(@, pcmData)]

TF_onChunkReady(w, pcmData) ==
    LET w1 == [w EXCEPT !.tr.processingQueue = Append(@, pcmData)]
    IN  IF ~w1.tr.isProcessing THEN TF_processQueue(w1) ELSE w1

TF_pipelineResolved(w, text) ==
    TF_processQueue(appendTranscribed(w, text))

TF_pipelineRejected(w) ==
    TF_processQueue(onError(w, "Error transcribing audio chunk"))

(***************************************************************************)
(* The callbacks the transcriber installs on its AudioProcessor            *)
(* (setupAudioProcessorCallbacks, the same in both classes).               *)
(***************************************************************************)
audioProcessor_onChunkReady(w, pcmData) ==
    IF backend = "turbo"
    THEN Turbo_onChunkReady(w, pcmData)
    ELSE TF_onChunkReady(w, pcmData)

audioProcessor_onError(w, error) == onError(w, error)

audioProcessor_onStatusChange(w, status) ==
    IF status = "stopped" /\ ~w.tr.isProcessing
    THEN onStatusChange(w, "stopped")
    ELSE w

(***************************************************************************)
(* AudioProcessor.                                                         *)
(***************************************************************************)
mediaRecorder_stop(w) ==
    [w EXCEPT !.ap.mediaRecorder = "inactive",
              !.env.mrEvents = Append(@, w.env.mrBuffer),
              !.env.mrBuffer = 0]

AP_scheduleChunkStop(w) == [w EXCEPT !.ap.chunkTimer = "armed"]

\* the timer callback of scheduleChunkStop
AP_chunkTimerFired(w) ==
    LET w1 == [w EXCEPT !.ap.chunkTimer = "fired"]
    IN  IF w1.ap.mediaRecorder = "recording" THEN mediaRecorder_stop(w1) ELSE w1

\* mediaRecorder.onstop, "Restart for next chunk if still recording";
\* start() on a recorder that is already recording throws InvalidStateError,
\* start() on a stream whose tracks have all ended throws NotSupportedError
AP_restartForNextChunk(w) ==
    IF w.ap.isRecording
    THEN IF w.ap.mediaRecorder = "inactive" /\ ~w.env.trackEnded
         THEN AP_scheduleChunkStop([w EXCEPT !.ap.mediaRecorder = "recording"])
         ELSE w
    ELSE w

\* ondataavailable followed by onstop, up to "await this.convertBlobToPCM"
AP_onstop(w, size) ==
    LET chunks == IF size > 0 THEN Append(w.ap.chunks, size) ELSE w.ap.chunks
    IN  IF Len(chunks) > 0
        THEN [w EXCEPT !.ap.chunks = <<>>,
                       !.ap.audioContext = TRUE,
                       !.env.decoding = Append(@, SumSeq(chunks))]
        ELSE AP_restartForNextChunk([w EXCEPT !.ap.chunks = chunks])

\* mediaRecorder.onstop after convertBlobToPCM has settled
AP_onstopConverted(w, blob, decoded) ==
    LET pcmData == [seq |-> w.hist.nextSeq, len |-> blob]
        w1 == IF decoded
              THEN audioProcessor_onChunkReady(
                       [w EXCEPT !.hist.nextSeq = @ + 1], pcmData)
              ELSE audioProcessor_onError(w, "Error processing audio chunk")
    IN  AP_restartForNextChunk(w1)

\* variant: stopRecording() leaves the MediaRecorder running
AP_stopRecording_keepsRecorder(w) ==
    LET w1 == [w EXCEPT !.ap.isRecording = FALSE, !.ap.chunkTimer = "null"]
        w3 == IF w1.ap.stream
              THEN [w1 EXCEPT !.env.liveTracks = @ - 1, !.ap.stream = FALSE]
              ELSE w1
    IN  audioProcessor_onStatusChange(w3, "stopped")

AP_stopRecording(w) ==
    LET w1 == [w EXCEPT !.ap.isRecording = FALSE, !.ap.chunkTimer = "null"]
        w2 == IF w1.ap.mediaRecorder = "recording"
              THEN mediaRecorder_stop(w1) ELSE w1
        w3 == IF w2.ap.stream
              THEN [w2 EXCEPT !.env.liveTracks =
                                  IF w2.env.trackEnded THEN @ ELSE @ - 1,
                              !.env.trackEnded = FALSE,
                              !.ap.stream = FALSE]
              ELSE w2
    IN  audioProcessor_onStatusChange(w3, "stopped")

\* startRecording up to "await navigator.mediaDevices.getUserMedia"
AP_startRecording(w) ==
    IF w.ap.isRecording
    THEN Return(w, "false")
    ELSE Return([w EXCEPT !.env.acquireWaiters = @ + 1], "pending")

StartOutcomes == {"denied", "ok", "recorderCtorThrows", "recorderStartThrows"}

MicError == "Failed to access microphone. Please grant permission and try again."

\* startRecording from the point getUserMedia settles
AP_startRecordingResumed(w, outcome) ==
    LET w0 == [w EXCEPT !.env.acquireWaiters = @ - 1]
        acquired == [w0 EXCEPT !.ap.stream = TRUE,
                               !.env.liveTracks = @ + 1,
                               !.env.trackEnded = FALSE]
        created == [acquired EXCEPT !.ap.mediaRecorder = "inactive",
                                    !.ap.chunks = <<>>,
                                    !.env.mrBuffer = 0]
        started == AP_scheduleChunkStop(
                       [created EXCEPT !.ap.mediaRecorder = "recording",
                                       !.ap.isRecording = TRUE])
    IN  CASE outcome = "denied" ->
                 Return(audioProcessor_onError(w0, MicError), "false")
          [] outcome = "recorderCtorThrows" ->
                 Return(audioProcessor_onError(acquired, MicError), "false")
          [] outcome = "recorderStartThrows" ->
                 Return(audioProcessor_onError(created, MicError), "false")
          [] OTHER ->
                 Return(audioProcessor_onStatusChange(started, "recording"),
                        "true")

AP_destroy(w) ==
    LET w1 == AP_stopRecording(w)
    IN  [w1 EXCEPT !.ap.audioContext = FALSE, !.ap.chunks = <<>>]

(***************************************************************************)
(* WhisperTurboTranscriber: public methods.                                *)
(***************************************************************************)
\* start(), "Create audio processor" and "Start recording", up to the await
Turbo_startAudio(w) ==
    LET w1 == IF ~w.tr.audioProcessor
              THEN [w EXCEPT !.tr.audioProcessor = TRUE,
                             !.ap = NewAudioProcessor]
              ELSE w
    IN  AP_startRecording(w1)

\* loadModel up to the returned promise
Turbo_loadModel(w) ==
    IF w.tr.modelLoaded
    THEN Return(w, "true")
    ELSE IF ~w.tr.worker
    THEN Return(onError(w, "Worker not initialized"), "false")
    ELSE Return([onLoadingChange(w, "true")
                    EXCEPT !.env.loading = @ + 1,
                           !.env.loadWaiters = @ + 1], "pending")

Turbo_start(w) ==
    IF w.tr.isRecording
    THEN Return(w, "false")
    ELSE IF ~w.tr.modelLoaded
    THEN Turbo_loadModel(
             onError(w, "Please wait for the model to load before starting..."))
    ELSE Turbo_startAudio(w)

\* start() after "await this.audioProcessor.startRecording(30000)"
Turbo_startResumed(w, outcome) ==
    LET w1 == AP_startRecordingResumed(w, outcome)
    IN  IF w1.ret = "true"
        THEN onStatusChange([w1 EXCEPT !.tr.isRecording = TRUE], "recording")
        ELSE w1

\* the worker's 'loaded' message
Turbo_onWorkerLoaded(w) ==
    onLoadingChange([w EXCEPT !.tr.modelLoaded = TRUE,
                              !.env.loading = @ - 1], "false")

\* loadModel's 100 ms poll sees modelLoaded and resolves true: start() goes on
Turbo_loadPollResolved(w) ==
    Turbo_startAudio([w EXCEPT !.env.loadWaiters = @ - 1])

\* loadModel's 5 minute timeout with the model still not loaded
Turbo_loadTimedOut(w) ==
    Return(onError([w EXCEPT !.env.loadWaiters = @ - 1],
                   "Model loading timeout"), "false")

Turbo_stop(w) ==
    LET w1 == [w EXCEPT !.tr.isRecording = FALSE, !.hist.stopped = TRUE]
        w2 == IF w1.tr.audioProcessor THEN AP_stopRecording(w1) ELSE w1
    IN  IF ~w2.tr.isProcessing THEN onStatusChange(w2, "stopped") ELSE w2

Turbo_clear(w) ==
    onTranscriptUpdate([w EXCEPT !.tr.finalTranscript = <<>>,
                                 !.tr.interimTranscript = <<>>,
                                 !.tr.processingQueue = <<>>], <<>>, <<>>)

Turbo_setTranscript(w, text) ==
    onTranscriptUpdate([w EXCEPT !.tr.finalTranscript = text],
                       text, w.tr.interimTranscript)

\* worker.terminate() discards the requests the worker has not answered
Turbo_destroy(w) ==
    LET w1 == Turbo_stop(w)
        w2 == IF w1.tr.audioProcessor
              THEN [AP_destroy(w1) EXCEPT !.tr.audioProcessor = FALSE]
              ELSE w1
        w3 == IF w2.tr.worker
              THEN [w2 EXCEPT !.tr.worker = FALSE,
                              !.env.inflight = {},
                              !.env.loading = 0]
              ELSE w2
    IN  [w3 EXCEPT !.tr.modelLoaded = FALSE,
                   !.tr.processingQueue = <<>>,
                   !.hist.destroyed = TRUE]

(***************************************************************************)
(* TransformersWhisperTranscriber: public methods.                         *)
(***************************************************************************)
TF_startAudio(w) ==
    LET w1 == IF ~w.tr.audioProcessor
              THEN [w EXCEPT !.tr.audioProcessor = TRUE,
                             !.ap = NewAudioProcessor]
              ELSE w
    IN  AP_startRecording(w1)

\* loadModel up to its first await
TF_loadModel(w) ==
    IF w.tr.modelLoaded
    THEN Return(w, "true")
    ELSE Return([onLoadingChange(w, "true") EXCEPT !.env.loadWaiters = @ + 1],
                "pending")

TF_start(w) ==
    IF w.tr.isRecording
    THEN Return(w, "false")
    ELSE IF ~w.tr.modelLoaded
    THEN TF_loadModel(w)
    ELSE TF_startAudio(w)

\* loadModel after createTransformersPipeline settled, and start() after it
TF_loadSettled(w, loaded) ==
    LET w0 == [w EXCEPT !.env.loadWaiters = @ - 1]
    IN  IF loaded
        THEN TF_startAudio(
                 onLoadingChange([w0 EXCEPT !.tr.pipeline = TRUE,
                                            !.tr.modelLoaded = TRUE], "false"))
        ELSE Return(onLoadingChange(
                        onError(w0, "Failed to load Whisper model."), "false"),
                    "false")

TF_startResumed(w, outcome) ==
    LET w1 == AP_startRecordingResumed(w, outcome)
    IN  IF w1.ret = "true"
        THEN onStatusChange([w1 EXCEPT !.tr.isRecording = TRUE], "recording")
        ELSE w1

TF_stop(w) ==
    LET w1 == [w EXCEPT !.tr.isRecording = FALSE, !.hist.stopped = TRUE]
        w2 == IF w1.tr.audioProcessor THEN AP_stopRecording(w1) ELSE w1
    IN  IF ~w2.tr.isProcessing THEN onStatusChange(w2, "stopped") ELSE w2

TF_clear(w) ==
    onTranscriptUpdate([w EXCEPT !.tr.finalTranscript = <<>>,
                                 !.tr.interimTranscript = <<>>,
                                 !.tr.processingQueue = <<>>], <<>>, <<>>)

TF_setTranscript(w, text) ==
    onTranscriptUpdate([w EXCEPT !.tr.finalTranscript = text],
                       text, w.tr.interimTranscript)

TF_destroy(w) ==
    LET w1 == TF_stop(w)
        w2 == IF w1.tr.audioProcessor
              THEN [AP_destroy(w1) EXCEPT !.tr.audioProcessor = FALSE]
              ELSE w1
    IN  [w2 EXCEPT !.tr.pipeline = FALSE,
                   !.tr.modelLoaded = FALSE,
                   !.tr.processingQueue = <<>>,
                   !.hist.destroyed = TRUE]

(***************************************************************************)
(* Tasks of the chunk pipeline.  Public methods are called by the          *)
(* surrounding application at any time until destroy(); the remaining      *)
(* tasks are delivered by the browser.                                     *)
(***************************************************************************)
IsChunk == backend \in ChunkBackends

SetTexts == { <<"s", SP>> }   \* texts restored by setTranscript

Start ==
    /\ IsChunk
    /\ ~hist.destroyed
    /\ hist.starts < MaxStarts
    /\ env.loadWaiters + env.acquireWaiters < MaxPending
    /\ LET w == [W EXCEPT !.hist.starts = @ + 1, !.hist.stopped = FALSE]
       IN  Commit(IF backend = "turbo" THEN Turbo_start(w) ELSE TF_start(w),
                  "start")

Stop ==
    /\ IsChunk
    /\ ~hist.destroyed
    /\ Commit(IF backend = "turbo" THEN Turbo_stop(W) ELSE TF_stop(W), "stop")

Clear ==
    /\ IsChunk
    /\ ~hist.destroyed
    /\ Commit(IF backend = "turbo" THEN Turbo_clear(W) ELSE TF_clear(W),
              "clear")

SetTranscript ==
    /\ IsChunk
    /\ ~hist.destroyed
    /\ \E text \in SetTexts :
         Commit(IF backend = "turbo"
                THEN Turbo_setTranscript(W, text)
                ELSE TF_setTranscript(W, text), "setTranscript")

Destroy ==
    /\ IsChunk
    /\ ~hist.destroyed
    /\ Commit(IF backend = "turbo" THEN Turbo_destroy(W) ELSE TF_destroy(W),
              "destroy")

WorkerLoaded ==
    /\ backend = "turbo"
    /\ env.loading > 0
    /\ Commit(Turbo_onWorkerLoaded(W), "loaded")

LoadPollResolved ==
    /\ backend = "turbo"
    /\ env.loadWaiters > env.loadOverdue
    /\ tr.modelLoaded
    /\ Commit(Turbo_loadPollResolved(W), "loadResolved")

LoadTimedOut ==
    /\ backend = "turbo"
    /\ env.loadWaiters > env.loadOverdue
    /\ ~tr.modelLoaded
    /\ Commit(Turbo_loadTimedOut(W), "loadTimeout")

LoadSettled ==
    /\ backend = "transformers"
    /\ env.loadWaiters > env.loadOverdue
    /\ \E loaded \in BOOLEAN : Commit(TF_loadSettled(W, loaded), "loadSettled")

GetUserMediaSettled ==
    /\ IsChunk
    /\ env.acquireWaiters > 0
    /\ \E outcome \in StartOutcomes :
         Commit(IF backend = "turbo"
                THEN Turbo_startResumed(W, outcome)
                ELSE TF_startResumed(W, outcome),
                IF outcome = "denied" THEN "startDenied" ELSE "startResumed")

\* the running recorder captures audio: one unit per recording period
AudioArrives ==
    /\ IsChunk
    /\ ap.mediaRecorder = "recording"
    /\ ~env.trackEnded
    /\ env.mrBuffer = 0
    /\ hist.audioIn < MaxAudio
    /\ Commit([W EXCEPT !.env.mrBuffer = @ + 1, !.hist.audioIn = @ + 1],
              "audio")

ChunkTimerFires ==
    /\ IsChunk
    /\ ap.chunkTimer = "armed"
    /\ Commit(AP_chunkTimerFired(W), "chunkTimer")

RecorderStopped ==
    /\ IsChunk
    /\ env.mrEvents # <<>>
    /\ Commit(AP_onstop([W EXCEPT !.env.mrEvents = Tail(@)],
                        Head(env.mrEvents)), "onstop")

Converted ==
    /\ IsChunk
    /\ \E i \in 1..Len(env.decoding), decoded \in BOOLEAN :
         Commit(AP_onstopConverted(
                    [W EXCEPT !.env.decoding = RemoveAt(@, i)],
                    env.decoding[i], decoded), "converted")

WorkerResult ==
    /\ backend = "turbo"
    /\ \E c \in env.inflight : \E text \in ResultTexts(c) :
         Commit(Turbo_handleTranscriptionResult(
                    [W EXCEPT !.env.inflight = @ \ {c}], text), "result")

WorkerError ==
    /\ backend = "turbo"
    /\ \E c \in env.inflight :
         Commit(Turbo_onWorkerError([W EXCEPT !.env.inflight = @ \ {c}]),
                "error")

PipelineResolved ==
    /\ backend = "transformers"
    /\ \E c \in env.inflight : \E text \in ResultTexts(c) :
         Commit(TF_pipelineResolved(
                    [W EXCEPT !.env.inflight = @ \ {c}], text), "result")

PipelineRejected ==
    /\ backend = "transformers"
    /\ \E c \in env.inflight :
         Commit(TF_pipelineRejected([W EXCEPT !.env.inflight = @ \ {c}]),
                "error")

NextChunk ==
    \/ Start \/ Stop \/ Clear \/ SetTranscript \/ Destroy
    \/ WorkerLoaded \/ LoadPollResolved \/ LoadTimedOut \/ LoadSettled
    \/ GetUserMediaSettled \/ AudioArrives \/ ChunkTimerFires
    \/ RecorderStopped \/ Converted
    \/ WorkerResult \/ WorkerError \/ PipelineResolved \/ PipelineRejected

\* the capture device is unplugged during a recording: the track ends, and a
\* MediaRecorder whose tracks have all ended stops by itself
TrackEnded ==
    /\ IsChunk
    /\ tr.audioProcessor
    /\ ap.isRecording
    /\ ap.stream
    /\ ~env.trackEnded
    /\ LET w == [W EXCEPT !.env.trackEnded = TRUE, !.env.liveTracks = @ - 1]
       IN  Commit(IF w.ap.mediaRecorder = "recording"
                  THEN mediaRecorder_stop(w) ELSE w, "trackEnded")

NextTrackLoss == NextChunk \/ TrackEnded

InitWith(B, a) ==
    /\ backend \in B
    /\ tr = NewTranscriber(backend)
    /\ ap = NewAudioProcessor
    /\ env = NewEnv
    /\ out = <<>>
    /\ op = [name |-> "new", ret |-> "none"]
    /\ hist = NewHist
    /\ pcm = NoPcm
    /\ app = a

\* the transcriber on its own, as constructed
InitOf(B) == InitWith(B, NewApp(FALSE))

InitChunk == InitOf(ChunkBackends)

SpecChunk == InitChunk /\ [][NextChunk]_vars

\* the chunked transcribers with a capture device that can be lost
SpecTrackLoss == InitChunk /\ [][NextTrackLoss]_vars

\* the chunk queue observed through the status indicator: the application
\* has installed its callbacks and calls neither clear() nor destroy()
NextQueue ==
    \/ Start \/ Stop
    \/ WorkerLoaded \/ LoadPollResolved \/ LoadTimedOut \/ LoadSettled
    \/ GetUserMediaSettled \/ AudioArrives \/ ChunkTimerFires
    \/ RecorderStopped \/ Converted
    \/ WorkerResult \/ WorkerError \/ PipelineResolved \/ PipelineRejected

\* the event loop runs every task that is due (timers, recorder events, the
\* continuation of a settled conversion), and every inference call
\* completes, with a result or with an error
SpecQueue ==
    /\ InitWith(ChunkBackends, NewApp(TRUE))
    /\ [][NextQueue]_vars
    /\ WF_vars(ChunkTimerFires)
    /\ WF_vars(RecorderStopped)
    /\ WF_vars(Converted)
    /\ WF_vars(WorkerResult \/ WorkerError)
    /\ WF_vars(PipelineResolved \/ PipelineRejected)

\* the maximum load time (300000 ms) of a pending loadModel call elapses
\* and the call is not settled, now or later.
\*   turbo: the 5 minute timer runs with modelLoaded already set by the
\*     'loaded' message but before the 100 ms poll has seen it; the callback
\*     cancels the poll and, modelLoaded being true, resolves nothing.  With
\*     modelLoaded false the same timer is LoadTimedOut.
\*   transformers: loadModel arms no timer; it waits for the imported
\*     script to define createTransformersPipeline and for the pipeline
\*     promise, neither of which has to happen.
LoadDeadlinePassed ==
    /\ IsChunk
    /\ env.loadWaiters > env.loadOverdue
    /\ backend = "turbo" => tr.modelLoaded
    /\ Commit([W EXCEPT !.env.loadOverdue = @ + 1], "loadOverdue")

NextLoad == NextChunk \/ LoadDeadlinePassed

\* the chunked transcribers with model loads that may not complete
SpecLoad == InitChunk /\ [][NextLoad]_vars

(***************************************************************************)
(* WebSpeechTranscriber.  The recognition session is the browser's:        *)
(*   inactive  no session;  recognition.start() opens one                  *)
(*   live      start() was called; the 'start' event follows, then results *)
(*   stopping  stop() was called: a last result may follow, then 'end'     *)
(*   ending    an 'error' event was delivered: 'end' follows               *)
(* recognition.start() throws InvalidStateError unless the session is      *)
(* inactive; the browser may also reject it for reasons of its own.        *)
(***************************************************************************)
FatalErrors == {"audio-capture", "not-allowed", "network"}
RecognitionErrors == FatalErrors \cup {"no-speech", "aborted", "bad-grammar"}

CanStart(w) == w.tr.recognition /\ w.env.recState = "inactive"

recognition_start(w, rejected) ==
    IF CanStart(w) /\ ~rejected
    THEN Return([w EXCEPT !.env.recState = "live",
                          !.env.startPending = TRUE], "started")
    ELSE Return(w, "threw")

recognition_stop(w) ==
    IF w.env.recState = "live"
    THEN [w EXCEPT !.env.recState = "stopping"]
    ELSE w

WS_handleError(w, message) == onError(w, message)

\* clearTimeout(this.restartTimeout): a handle whose timer has run is inert
clearRestartTimeout(w) ==
    IF w.tr.restartTimeout # "null"
    THEN [w EXCEPT !.tr.restartTimeout = "null",
                   !.env.timers = SelectSeq(@, LAMBDA t : t.kind # "restart")]
    ELSE w

\* recognition.onresult: results is event.results from event.resultIndex on
RECURSIVE WS_resultLoop(_, _, _)
WS_resultLoop(results, final, interim) ==
    IF results = <<>>
    THEN [final |-> final, interim |-> interim]
    ELSE LET r == Head(results)
             sep == IF Len(final) > 0 /\ ~endsWithSpace(final)
                    THEN <<SP>> ELSE <<>>
         IN  IF r.isFinal
             THEN WS_resultLoop(Tail(results), final \o sep \o r.transcript,
                                interim)
             ELSE WS_resultLoop(Tail(results), final,
                                interim \o r.transcript)

\* variant: the interim text of an event is added to the previous one
WS_onresult_appendsInterim(w, results) ==
    LET t == WS_resultLoop(results, w.tr.finalTranscript,
                           w.tr.interimTranscript)
    IN  onTranscriptUpdate(
            [w EXCEPT !.tr.finalTranscript = t.final,
                      !.tr.interimTranscript = t.interim],
            t.final, t.interim)

WS_onresult(w, results) ==
    LET t == WS_resultLoop(results, w.tr.finalTranscript, <<>>)
    IN  onTranscriptUpdate(
            [w EXCEPT !.tr.finalTranscript = t.final,
                      !.tr.interimTranscript = t.interim],
            t.final, t.interim)

\* variant: the end of a session that is not restarted republishes the text
WS_onend_republish(w) ==
    LET w1 == clearRestartTimeout(w)
    IN  IF w1.tr.shouldRestart /\ w1.tr.isRecording
        THEN [w1 EXCEPT
                 !.tr.restartTimeout = "armed",
                 !.env.timers =
                     Append(@, [kind |-> "restart", due |-> restartDelay]),
                 !.hist.cycle = [attempts |-> 0, threw |-> 0, at |-> 0,
                                 clean |-> w1.env.timers = <<>>]]
        ELSE onTranscriptUpdate(
                 onStatusChange([w1 EXCEPT !.tr.isRecording = FALSE],
                                "stopped"),
                 w1.tr.finalTranscript, <<>>)

WS_onend(w) ==
    LET w1 == clearRestartTimeout(w)
    IN  IF w1.tr.shouldRestart /\ w1.tr.isRecording
        THEN [w1 EXCEPT
                 !.tr.restartTimeout = "armed",
                 !.env.timers =
                     Append(@, [kind |-> "restart", due |-> restartDelay]),
                 !.hist.cycle = [attempts |-> 0, threw |-> 0, at |-> 0,
                                 clean |-> w1.env.timers = <<>>]]
        ELSE onStatusChange([w1 EXCEPT !.tr.isRecording = FALSE], "stopped")

\* history: one more recognition.start() call of the restart path
Attempted(w, t) ==
    [w EXCEPT !.hist.cycle.attempts = @ + 1,
              !.hist.cycle.at = t.due,
              !.hist.cycle.threw = IF w.ret = "threw" THEN @ + 1 ELSE @]

\* variant: a restart attempt that throws is not followed by a retry
WS_restartTimerFired_noRetry(w, t, rejected) ==
    LET w0 == [w EXCEPT !.tr.restartTimeout = "fired"]
    IN  IF w0.tr.isRecording /\ w0.tr.shouldRestart
        THEN Attempted(recognition_start(w0, rejected), t)
        ELSE Return(w0, "skipped")

\* the callback of the restart timer armed by onend
WS_restartTimerFired(w, t, rejected) ==
    LET w0 == [w EXCEPT !.tr.restartTimeout = "fired"]
    IN  IF w0.tr.isRecording /\ w0.tr.shouldRestart
        THEN LET w1 == Attempted(recognition_start(w0, rejected), t)
             IN  IF w1.ret = "threw"
                    /\ w1.tr.isRecording /\ w1.tr.shouldRestart
                 THEN [w1 EXCEPT !.env.timers =
                          Append(@, [kind |-> "retry",
                                     due |-> t.due + RetryDelay])]
                 ELSE w1
        ELSE Return(w0, "skipped")

\* the callback of the retry timer armed when the restart attempt threw
WS_retryTimerFired(w, t, rejected) ==
    IF w.tr.isRecording /\ w.tr.shouldRestart
    THEN LET w1 == Attempted(recognition_start(w, rejected), t)
         IN  IF w1.ret = "threw"
             THEN WS_handleError(w1, "InvalidStateError")
             ELSE w1
    ELSE Return(w, "skipped")

WS_stop(w) ==
    LET w1 == clearRestartTimeout(
                  [w EXCEPT !.tr.shouldRestart = FALSE,
                            !.hist.stopped = TRUE,
                            !.hist.cycle.clean = FALSE])
        w2 == IF w1.tr.recognition /\ w1.tr.isRecording
              THEN recognition_stop(w1) ELSE w1
    IN  onStatusChange([w2 EXCEPT !.tr.isRecording = FALSE], "stopped")

\* variant: 'no-speech' is reported like an unknown error
WS_onerror_noSpeechReported(w, error) ==
    CASE error = "audio-capture" ->
             WS_stop(WS_handleError(
                 [w EXCEPT !.hist.fatal = TRUE],
                 "Microphone not accessible. Please check your microphone connection."))
      [] error = "not-allowed" ->
             WS_stop(WS_handleError(
                 [w EXCEPT !.hist.fatal = TRUE],
                 "Microphone permission denied. Please grant permission and try again."))
      [] error = "network" ->
             WS_stop(WS_handleError(
                 [w EXCEPT !.hist.fatal = TRUE],
                 "Network error. Web Speech API requires internet connection."))
      [] error = "aborted" -> w
      [] OTHER -> WS_handleError(w, "Recognition error")

\* variant: a 'network' error is reported like an unknown error, without stop()
WS_onerror_networkKeepsGoing(w, error) ==
    CASE error = "no-speech" -> w
      [] error = "audio-capture" ->
             WS_stop(WS_handleError(
                 [w EXCEPT !.hist.fatal = TRUE],
                 "Microphone not accessible. Please check your microphone connection."))
      [] error = "not-allowed" ->
             WS_stop(WS_handleError(
                 [w EXCEPT !.hist.fatal = TRUE],
                 "Microphone permission denied. Please grant permission and try again."))
      [] error = "network" ->
             WS_handleError(
                 [w EXCEPT !.hist.fatal = TRUE],
                 "Network error. Web Speech API requires internet connection.")
      [] error = "aborted" -> w
      [] OTHER -> WS_handleError(w, "Recognition error")

WS_onerror(w, error) ==
    CASE error = "no-speech" -> w
      [] error = "audio-capture" ->
             WS_stop(WS_handleError(
                 [w EXCEPT !.hist.fatal = TRUE],
                 "Microphone not accessible. Please check your microphone connection."))
      [] error = "not-allowed" ->
             WS_stop(WS_handleError(
                 [w EXCEPT !.hist.fatal = TRUE],
                 "Microphone permission denied. Please grant permission and try again."))
      [] error = "network" ->
             WS_stop(WS_handleError(
                 [w EXCEPT !.hist.fatal = TRUE],
                 "Network error. Web Speech API requires internet connection."))
      [] error = "aborted" -> w
      [] OTHER -> WS_handleError(w, "Recognition error")

\* variant: the 'start' event of a session begins a fresh transcript
WS_onstart_fresh(w) ==
    onStatusChange([w EXCEPT !.tr.isRecording = TRUE,
                             !.tr.finalTranscript = <<>>], "recording")

WS_onstart(w) ==
    onStatusChange([w EXCEPT !.tr.isRecording = TRUE], "recording")

\* variant: start() does not test isRecording
WS_start_unguarded(w) ==
    IF ~w.tr.recognition
    THEN Return(WS_handleError(w, "Speech recognition not initialized"),
                "false")
    ELSE Return([w EXCEPT !.env.acquireWaiters = @ + 1], "pending")

\* start() up to "await navigator.mediaDevices.getUserMedia"
WS_start(w) ==
    IF ~w.tr.recognition
    THEN Return(WS_handleError(w, "Speech recognition not initialized"),
                "false")
    ELSE IF w.tr.isRecording
    THEN Return(w, "false")
    ELSE Return([w EXCEPT !.env.acquireWaiters = @ + 1], "pending")

\* the probe stream: every track is stopped as soon as it is acquired
probeStream(w) ==
    LET acquired == [w EXCEPT !.env.liveTracks = @ + 1]
    IN  [acquired EXCEPT !.env.liveTracks = @ - 1]

\* variant: a successful start() begins with an empty transcript
WS_startResumed_resetsFinal(w, granted, rejected) ==
    LET w0 == [w EXCEPT !.env.acquireWaiters = @ - 1]
    IN  IF ~granted
        THEN Return(WS_handleError(w0, MicError), "false")
        ELSE LET w1 == [probeStream(w0) EXCEPT
                            !.tr.interimTranscript = <<>>,
                            !.tr.finalTranscript = <<>>,
                            !.tr.shouldRestart = TRUE,
                            !.hist.fatal = FALSE]
                 w2 == recognition_start(w1, rejected)
             IN  IF w2.ret = "threw"
                 THEN Return(WS_handleError(w2, MicError), "false")
                 ELSE Return(w2, "true")

\* start() from the point getUserMedia settles
\* variant: a refused microphone is asked for again
WS_startResumed_retries(w, granted, rejected) ==
    LET w0 == [w EXCEPT !.env.acquireWaiters = @ - 1]
    IN  IF ~granted
        THEN Return(WS_handleError(
                        [w0 EXCEPT !.env.acquireWaiters = @ + 1], MicError),
                    "false")
        ELSE LET w1 == [probeStream(w0) EXCEPT
                            !.tr.interimTranscript = <<>>,
                            !.tr.shouldRestart = TRUE,
                            !.hist.fatal = FALSE]
                 w2 == recognition_start(w1, rejected)
             IN  IF w2.ret = "threw"
                 THEN Return(WS_handleError(w2, MicError), "false")
                 ELSE Return(w2, "true")

WS_startResumed(w, granted, rejected) ==
    LET w0 == [w EXCEPT !.env.acquireWaiters = @ - 1]
    IN  IF ~granted
        THEN Return(WS_handleError(w0, MicError), "false")
        ELSE LET w1 == [probeStream(w0) EXCEPT
                            !.tr.interimTranscript = <<>>,
                            !.tr.shouldRestart = TRUE,
                            !.hist.fatal = FALSE]
                 w2 == recognition_start(w1, rejected)
             IN  IF w2.ret = "threw"
                 THEN Return(WS_handleError(w2, MicError), "false")
                 ELSE Return(w2, "true")

\* variant: clear() empties the final text only
WS_clear_keepsInterim(w) ==
    onTranscriptUpdate([w EXCEPT !.tr.finalTranscript = <<>>],
                       <<>>, w.tr.interimTranscript)

WS_clear(w) ==
    onTranscriptUpdate([w EXCEPT !.tr.finalTranscript = <<>>,
                                 !.tr.interimTranscript = <<>>], <<>>, <<>>)

\* variant: setTranscript adds the text to what is there, with the separator
WS_setTranscript_appends(w, text) ==
    LET sep == IF Len(w.tr.finalTranscript) > 0
                  /\ ~endsWithSpace(w.tr.finalTranscript)
               THEN <<SP>> ELSE <<>>
        final == w.tr.finalTranscript \o sep \o text
    IN  onTranscriptUpdate([w EXCEPT !.tr.finalTranscript = final],
                           final, w.tr.interimTranscript)

WS_setTranscript(w, text) ==
    onTranscriptUpdate([w EXCEPT !.tr.finalTranscript = text],
                       text, w.tr.interimTranscript)

\* getTranscript() of the three transcribers, on the transcriber's fields
getTranscript(t) == t.finalTranscript

WS_destroy(w) ==
    [clearRestartTimeout(WS_stop(w)) EXCEPT !.tr.recognition = FALSE,
                                            !.hist.destroyed = TRUE]

(***************************************************************************)
(* Tasks of the continuous recognition controller.                         *)
(***************************************************************************)
IsWS == backend = "webspeech"

Res(t, f) == [transcript |-> t, isFinal |-> f]

\* the result lists a result event may carry
ResultLists ==
    { << Res(<<"a">>, FALSE) >>,
      << Res(<<"a", SP>>, TRUE) >>,
      << Res(<<"b">>, TRUE), Res(<<"c">>, FALSE) >>,
      << Res(<<"c">>, FALSE) >> }

\* texts given to setTranscript: saved text, text edited by hand
WSSetTexts == SetTexts \cup { <<"s", NL>> }

\* the browser rejects a start() that would otherwise succeed
MayReject(w, rejected) ==
    rejected => CanStart(w) /\ w.tr.isRecording /\ w.tr.shouldRestart

WSStart ==
    /\ IsWS
    /\ ~hist.destroyed
    /\ hist.starts < MaxStarts
    /\ env.acquireWaiters < MaxPending
    /\ Commit(WS_start([W EXCEPT !.hist.starts = @ + 1,
                                 !.hist.stopped = FALSE,
                                 !.hist.fatal = FALSE]), "start")

WSGetUserMediaSettled ==
    /\ IsWS
    /\ env.acquireWaiters > 0
    /\ \E granted \in BOOLEAN, rejected \in BOOLEAN :
         /\ rejected => granted /\ CanStart(W)
         /\ Commit(WS_startResumed(W, granted, rejected),
                   IF granted THEN "startResumed" ELSE "startDenied")

WSStop ==
    /\ IsWS
    /\ ~hist.destroyed
    /\ Commit(WS_stop(W), "stop")

WSClear ==
    /\ IsWS
    /\ ~hist.destroyed
    /\ Commit(WS_clear(W), "clear")

WSSetTranscript ==
    /\ IsWS
    /\ ~hist.destroyed
    /\ \E text \in WSSetTexts :
         Commit(WS_setTranscript(W, text), "setTranscript")

WSDestroy ==
    /\ IsWS
    /\ ~hist.destroyed
    /\ Commit(WS_destroy(W), "destroy")

SessionStarted ==
    /\ IsWS
    /\ env.startPending
    /\ Commit(WS_onstart([W EXCEPT !.env.startPending = FALSE]), "onstart")

SessionResult ==
    /\ IsWS
    /\ env.recState \in {"live", "stopping"}
    /\ ~env.startPending
    /\ Len(tr.finalTranscript) < MaxFinal
    /\ \E results \in ResultLists :
         Commit(WS_onresult(W, results), "onresult")

SessionError ==
    /\ IsWS
    /\ env.recState \in {"live", "stopping"}
    /\ \E error \in RecognitionErrors :
         Commit(Return(WS_onerror([W EXCEPT !.env.recState = "ending",
                                            !.env.startPending = FALSE],
                                  error), error),
                "onerror")

\* the session ends: on its own after silence, or after stop() or an error
SessionEnded ==
    /\ IsWS
    /\ \/ env.recState \in {"stopping", "ending"}
       \/ env.recState = "live" /\ ~env.startPending
    /\ Commit(WS_onend([W EXCEPT !.env.recState = "inactive",
                                 !.env.startPending = FALSE]), "onend")

RestartTimerFires ==
    /\ IsWS
    /\ \E i \in 1..Len(env.timers), rejected \in BOOLEAN :
         /\ env.timers[i].kind = "restart"
         /\ MayReject(W, rejected)
         /\ Commit(WS_restartTimerFired(
                       [W EXCEPT !.env.timers = RemoveAt(@, i)],
                       env.timers[i], rejected), "restartTimer")

RetryTimerFires ==
    /\ IsWS
    /\ \E i \in 1..Len(env.timers), rejected \in BOOLEAN :
         /\ env.timers[i].kind = "retry"
         /\ MayReject(W, rejected)
         /\ Commit(WS_retryTimerFired(
                       [W EXCEPT !.env.timers = RemoveAt(@, i)],
                       env.timers[i], rejected), "retryTimer")

NextWS ==
    \/ WSStart \/ WSGetUserMediaSettled \/ WSStop \/ WSClear
    \/ WSSetTranscript \/ WSDestroy
    \/ SessionStarted \/ SessionResult \/ SessionError \/ SessionEnded
    \/ RestartTimerFires \/ RetryTimerFires

InitWS == InitOf({"webspeech"})

SpecWS == InitWS /\ [][NextWS]_vars

(***************************************************************************)
(* LectureTranscriberApp with its WebSpeechTranscriber and its VUMeter.    *)
(* The application starts and stops the transcriber; the recognition       *)
(* events are the browser's.  "await Utils.wakeLock.request()" is taken to *)
(* settle at once, and ui.showError is the onError callback.               *)
(***************************************************************************)
\* a click on the start button: startRecording up to the await inside
\* transcriber.start()
AppStartRecording ==
    /\ IsWS
    /\ app.wired
    /\ hist.starts < MaxStarts
    /\ env.acquireWaiters < MaxPending
    /\ LET w == [W EXCEPT !.hist.starts = @ + 1]
           w1 == WS_start([w EXCEPT !.hist.stopped = FALSE,
                                    !.hist.fatal = FALSE])
       IN  IF app.isRecording
           THEN Commit(Return(w, "already"), "start")
           ELSE Commit(IF w1.ret = "false"
                       THEN onError(w1, "Failed to start recording.")
                       ELSE w1, "start")

\* getUserMedia settles, transcriber.start() returns and startRecording
\* goes on: "if (success)" with vuMeter.start() up to its await
AppStartSettled ==
    /\ IsWS
    /\ app.wired
    /\ env.acquireWaiters > 0
    /\ \E granted \in BOOLEAN, rejected \in BOOLEAN :
         /\ rejected => granted /\ CanStart(W)
         /\ LET w1 == WS_startResumed(W, granted, rejected)
            IN  Commit(IF w1.ret = "true"
                       THEN [w1 EXCEPT !.app.isRecording = TRUE,
                                       !.app.status = "recording",
                                       !.app.vuPending = @ + 1]
                       ELSE onError(w1, "Failed to start recording."),
                       IF granted THEN "startResumed" ELSE "startDenied")

\* a click on the stop button: stopRecording with transcriber.stop() and
\* vuMeter.stop()
AppStopRecording ==
    /\ IsWS
    /\ app.wired
    /\ IF ~app.isRecording
       THEN Commit(Return(W, "not recording"), "stop")
       ELSE Commit([WS_stop(W) EXCEPT
                       !.app.isRecording = FALSE,
                       !.app.status = "stopped",
                       !.app.vuAnimating = FALSE,
                       !.app.vuTracks = IF app.vuStream THEN @ - 1 ELSE @,
                       !.app.vuStream = FALSE], "stop")

\* VUMeter.start() after its getUserMedia has settled
VUStartSettled ==
    /\ app.vuPending > 0
    /\ \E granted \in BOOLEAN :
         Commit(IF granted
                THEN [W EXCEPT !.app.vuPending = @ - 1,
                               !.app.vuStream = TRUE,
                               !.app.vuTracks = @ + 1,
                               !.app.vuAnimating = TRUE]
                ELSE Return([W EXCEPT !.app.vuPending = @ - 1], "false"),
                "vuStart")

NextApp ==
    \/ AppStartRecording \/ AppStartSettled \/ AppStopRecording
    \/ VUStartSettled
    \/ SessionStarted \/ SessionResult \/ SessionError \/ SessionEnded
    \/ RestartTimerFires \/ RetryTimerFires

SpecApp == InitWith({"webspeech"}, NewApp(TRUE)) /\ [][NextApp]_vars

Init == InitOf(Backends)

Next == NextChunk \/ NextWS

Spec == Init /\ [][Next]_vars

(***************************************************************************)
(* Properties of the chunk processing queue.                               *)
(***************************************************************************)
queueSeqs == [k \in 1..Len(tr.processingQueue) |-> tr.processingQueue[k].seq]

Increasing(s) == \A i, j \in 1..Len(s) : i < j => s[i] < s[j]

\* the chunk numbers whose text is in finalTranscript, in text order
chunkToks ==
    SelectSeq(tr.finalTranscript,
              LAMBDA t : \E n \in 1..hist.nextSeq : t = ToString(n))

tokSeqs ==
    [k \in 1..Len(chunkToks) |->
        CHOOSE n \in 1..hist.nextSeq : chunkToks[k] = ToString(n)]

\* C1: in both chunk-queue transcribers, for every interleaving of chunk
\* arrivals, inference completions, stop() and clear(), the number of
\* inference calls dispatched and not yet completed is never greater than 1.
C1_AtMostOneInFlight == Cardinality(env.inflight) <= 1

\* a chunk arrived while another was in flight, and was queued behind it
C1_Witness ==
    /\ op.name = "converted"
    /\ Cardinality(env.inflight) = 1
    /\ Len(tr.processingQueue) >= 1

\* C2: chunks are dispatched in the order onChunkReady delivered them, and a
\* chunk's text is appended to the final transcript before the next chunk
\* is dispatched: the dispatch order is the delivery order, what waits in
\* the queue was delivered after everything dispatched, a chunk in flight is
\* the last one dispatched, and the texts in the transcript are in delivery
\* order and older than the chunk in flight.
C2_FifoOrder ==
    /\ Increasing(hist.dispatched \o queueSeqs)
    /\ \A c \in env.inflight : c.seq = Last(hist.dispatched)
    /\ Increasing(tokSeqs)
    /\ \A c \in env.inflight : \A k \in 1..Len(tokSeqs) : tokSeqs[k] < c.seq
    /\ \A k \in 1..Len(tokSeqs) :
         \E i \in 1..Len(hist.dispatched) : hist.dispatched[i] = tokSeqs[k]

\* two chunks were delivered before any inference resolved; the first one's
\* text is in the transcript and the second one is in flight
C2_Witness ==
    /\ op.name = "result"
    /\ Len(hist.dispatched) >= 2
    /\ Len(tokSeqs) >= 1
    /\ \E c \in env.inflight : c.seq = Last(tokSeqs) + 1
    /\ Len(tr.processingQueue) >= 1

\* C3: when the inference call for a chunk fails, the error goes to onError,
\* the chunk is not sent again (it is neither queued nor in flight
\* afterwards and no chunk is ever dispatched twice), the oldest queued chunk
\* if any is dispatched, the queue is left working (processing with a chunk
\* in flight, or idle and empty), and the recorder is not touched.  Once
\* destroy() has dropped the pipeline the call for each queued chunk fails
\* at once: each failure is reported and the queue drains to idle.
C3_FailedChunkDropped ==
    [][op'.name = "error" =>
         /\ \E k \in 1..Len(out') : out'[k].cb = "error"
         /\ \A c \in env.inflight :
              /\ c \notin env'.inflight
              /\ \A k \in 1..Len(tr'.processingQueue) :
                   tr'.processingQueue[k] # c
         /\ \A i, j \in 1..Len(hist'.dispatched) :
              i # j => hist'.dispatched[i] # hist'.dispatched[j]
         /\ tr.processingQueue # <<>> /\ (tr.worker \/ tr.pipeline) =>
              /\ env'.inflight = {Head(tr.processingQueue)}
              /\ tr'.processingQueue = Tail(tr.processingQueue)
              /\ tr'.isProcessing
         /\ tr.processingQueue # <<>> /\ ~(tr.worker \/ tr.pipeline) =>
              /\ env'.inflight = {}
              /\ tr'.processingQueue = <<>>
              /\ ~tr'.isProcessing
              /\ Cardinality({k \in 1..Len(out') : out'[k].cb = "error"})
                     = 1 + Len(tr.processingQueue)
         /\ tr.processingQueue = <<>> =>
              /\ env'.inflight = {}
              /\ ~tr'.isProcessing
         /\ ap' = ap
         /\ tr'.isRecording = tr.isRecording
         /\ env'.mrBuffer = env.mrBuffer
    ]_vars

\* an inference failed while the recorder was running and a chunk waited:
\* the waiting chunk is now in flight and the recorder still records
C3_Witness ==
    /\ op.name = "error"
    /\ EmittedCb("error")
    /\ Cardinality(env.inflight) = 1
    /\ tr.isProcessing
    /\ ap.isRecording
    /\ ap.mediaRecorder = "recording"


\* audio captured by the recorder that has not reached the backend yet:
\* buffered, in an undelivered dataavailable event, collected, or being
\* decoded
finalising ==
    \/ env.mrBuffer > 0
    \/ \E k \in 1..Len(env.mrEvents) : env.mrEvents[k] > 0
    \/ ap.chunks # <<>>
    \/ env.decoding # <<>>

\* C4: after stop() on a chunk-based transcriber, 'stopped' is not signalled
\* while a chunk captured during the session is queued, in flight, or still
\* being finalised by the recorder.
C4_StoppedAfterDrain ==
    (hist.stopped /\ ~hist.destroyed /\ Emitted("status", "stopped")) =>
        /\ tr.processingQueue = <<>>
        /\ env.inflight = {}
        /\ ~finalising

C6_ReleasedOnExit ==
    (\/ op.name \in {"stop", "destroy"}
     \/ op.name = "startResumed" /\ op.ret = "false") =>
        /\ env.liveTracks = 0
        /\ ~ap.stream

(***************************************************************************)
(* Properties of the continuous recognition controller.  hist.cycle counts *)
(* the recognition.start() calls the restart path made since the last      *)
(* session end; the cycle is clean when that end armed the only timer and  *)
(* no stop() has run since.                                                *)
(***************************************************************************)
wantsRecording == tr.isRecording /\ tr.shouldRestart

C8_RestartKeepsFinal ==
    [][op'.name \in {"onend", "restartTimer", "retryTimer", "onstart"} =>
         tr'.finalTranscript = tr.finalTranscript]_vars

\* a restarted session reported its start with confirmed text in place
C8_Witness ==
    /\ op.name = "onstart"
    /\ hist.cycle.attempts >= 1
    /\ hist.cycle.clean
    /\ Len(tr.finalTranscript) >= 2
    /\ tr.isRecording

\* C9: when the second restart attempt also throws, an error is surfaced
\* through onError and the controller is Stopped: isRecording false, desired
\* state no longer recording, 'stopped' emitted.
C9_SecondFailureStops ==
    (op = [name |-> "retryTimer", ret |-> "threw"]) =>
        /\ EmittedCb("error")
        /\ ~tr.isRecording
        /\ ~tr.shouldRestart
        /\ Emitted("status", "stopped")

C11_NoSpeechSwallowed ==
    [][/\ (op'.name = "onerror" /\ op'.ret = "no-speech") =>
            /\ out' = <<>>
            /\ tr' = tr
            /\ env'.timers = env.timers
       /\ (op'.name = "onend" /\ wantsRecording) =>
            /\ tr'.isRecording /\ tr'.shouldRestart
            /\ tr'.restartTimeout = "armed"
            /\ \E k \in 1..Len(env'.timers) :
                 env'.timers[k] = [kind |-> "restart", due |-> restartDelay]
            /\ out' = <<>>
      ]_vars

\* 'no-speech' arrived while recording: nothing was reported, the desired
\* state is still recording and the session is about to end
C11_Witness ==
    /\ op = [name |-> "onerror", ret |-> "no-speech"]
    /\ wantsRecording
    /\ out = <<>>
    /\ env.recState = "ending"

\* C12: stop() cancels every pending timer synchronously: when stop() has
\* returned, neither the recorder's chunk timer nor a restart or retry timer
\* of the controller is pending.
C12_StopCancelsTimers ==
    (op.name = "stop") =>
        /\ env.timers = <<>>
        /\ ap.chunkTimer # "armed"

\* C13: on an explicit stop() of the recognition controller 'stopped' is
\* not emitted by stop() itself: while the session has not terminated,
\* stop() returns without having signalled 'stopped'.
C13_StoppedOnlyFromOnend ==
    (op.name = "stop" /\ env.recState # "inactive") =>
        ~Emitted("status", "stopped")

\* C14: a start call made while the component is already recording returns
\* false and changes no state: start() with the transcriber's isRecording
\* set, and a start() that comes back from loadModel and calls
\* AudioProcessor.startRecording with the recorder's isRecording set, return
\* false, invoke no callback, and leave the transcriber, the recorder and
\* the browser side (streams, timers, session) as they were.
C14_StartWhileRecordingRejected ==
    [][/\ (op'.name = "start" /\ tr.isRecording) =>
            /\ op'.ret = "false"
            /\ out' = <<>>
            /\ tr' = tr
            /\ ap' = ap
            /\ env' = env
       /\ (op'.name = "loadResolved" /\ tr.audioProcessor
             /\ ap.isRecording) =>
            /\ op'.ret = "false"
            /\ out' = <<>>
            /\ tr' = tr
            /\ ap' = ap
            /\ env' = [env EXCEPT !.loadWaiters = @ - 1]
      ]_vars

\* start() was rejected while a recording was running
C14_Witness ==
    /\ op = [name |-> "start", ret |-> "false"]
    /\ tr.isRecording
    /\ out = <<>>
    /\ \/ env.recState = "live"
       \/ ap.mediaRecorder = "recording"

\* s is a prefix of t
IsPrefix(s, t) == Len(s) <= Len(t) /\ SubSeq(t, 1, Len(s)) = s

\* C15: across every operation other than clear() and setTranscript()
\* (result events, chunk results and failures, session start, end and
\* restart, start, stop, destroy, model loading, timers, errors) the final
\* transcript only grows: its value before the step is a prefix of its value
\* after the step.
C15_FinalOnlyGrows ==
    [][op'.name \notin {"clear", "setTranscript"}
          => IsPrefix(tr.finalTranscript, tr'.finalTranscript)]_vars

\* a result was appended to earlier final text, in a later recording than
\* the first
C15_Witness ==
    /\ op.name \in {"result", "onresult"}
    /\ Len(tr.finalTranscript) >= 3
    /\ hist.starts = MaxStarts
    /\ EmittedCb("update")

\* C16: a successful start() of the continuous recognition controller
\* resets interimTranscript to empty and leaves finalTranscript unchanged:
\* the part of start() before getUserMedia changes neither, and the part
\* after it, when it returns true, empties the interim text and keeps the
\* final text, so final text of earlier start/stop cycles persists.
C16_StartResetsInterimOnly ==
    [][/\ (op'.name = "start" /\ op'.ret # "false") =>
            /\ tr'.finalTranscript = tr.finalTranscript
            /\ tr'.interimTranscript = tr.interimTranscript
       /\ (op'.name = "startResumed" /\ op'.ret = "true") =>
            /\ tr'.interimTranscript = <<>>
            /\ tr'.finalTranscript = tr.finalTranscript
      ]_vars

\* the second start() succeeded with final text of the first cycle in place
C16_Witness ==
    /\ op = [name |-> "startResumed", ret |-> "true"]
    /\ hist.starts = MaxStarts
    /\ tr.finalTranscript # <<>>
    /\ tr.interimTranscript = <<>>

\* the text a step appended to the final transcript
appended == SubSeq(tr'.finalTranscript, Len(tr.finalTranscript) + 1,
                   Len(tr'.finalTranscript))

\* C17: appending a final fragment inserts exactly one separating space when
\* the current final text is non-empty and does not already end in
\* whitespace, and no space otherwise.  The fragments of the model begin
\* with a letter, so the appended text begins with a space exactly when a
\* separator was inserted.
C17_SeparatorRule ==
    [][(/\ op'.name \in {"onresult", "result"}
        /\ tr'.finalTranscript # tr.finalTranscript)
       => /\ IsPrefix(tr.finalTranscript, tr'.finalTranscript)
          /\ IF /\ tr.finalTranscript # <<>>
                /\ Last(tr.finalTranscript) \notin Whitespace
             THEN Head(appended) = SP /\ appended[2] # SP
             ELSE Head(appended) # SP
      ]_vars

\* the non-final text of a result event
RECURSIVE nonFinalText(_)
nonFinalText(results) ==
    IF results = <<>>
    THEN <<>>
    ELSE (IF Head(results).isFinal THEN <<>> ELSE Head(results).transcript)
         \o nonFinalText(Tail(results))

hasFinal(results) == \E k \in 1..Len(results) : results[k].isFinal

\* C18: each result event replaces interimTranscript entirely with that
\* event's non-final text, whatever the interim text was before; the final
\* text changes only if the event carries a final result.  After interim
\* "a", final "a ", interim "c" the transcript is {final "a ", interim "c"}.
C18_InterimReplaced ==
    [][op'.name = "onresult" =>
         \E results \in ResultLists :
            /\ tr'.interimTranscript = nonFinalText(results)
            /\ IsPrefix(tr.finalTranscript, tr'.finalTranscript)
            /\ hasFinal(results) <=> tr'.finalTranscript # tr.finalTranscript
            /\ out' = << Ev("update", "", tr'.finalTranscript,
                            nonFinalText(results)) >>
      ]_vars

\* the end of the scenario: final "a ", interim "c"
C18_Witness ==
    /\ op.name = "onresult"
    /\ tr.finalTranscript = <<"a", SP>>
    /\ tr.interimTranscript = <<"c">>
    /\ out = << Ev("update", "", <<"a", SP>>, <<"c">>) >>

\* C19: every change to the transcript state (a final append or an interim
\* replacement) is followed, before any other event is handled, by an
\* onTranscriptUpdate notification whose payload equals the transcriber's
\* current {finalTranscript, interimTranscript}: the last notification of
\* the step that made the change carries the values the step left.
C19_ChangeNotified ==
    [][(\/ tr'.finalTranscript # tr.finalTranscript
        \/ tr'.interimTranscript # tr.interimTranscript)
       => \E k \in 1..Len(out') :
             /\ out'[k] = Ev("update", "", tr'.finalTranscript,
                             tr'.interimTranscript)
             /\ \A j \in (k + 1)..Len(out') : out'[j].cb # "update"
      ]_vars

\* C20: setTranscript(t) overwrites finalTranscript with t whatever the
\* state before (no separator, nothing kept of the previous final text),
\* leaves interimTranscript untouched, and getTranscript() called right
\* afterwards returns exactly t.
C20_SetThenGet ==
    [][op'.name = "setTranscript" =>
         \E t \in WSSetTexts :
            /\ tr'.finalTranscript = t
            /\ tr'.interimTranscript = tr.interimTranscript
            /\ getTranscript(tr') = t
            /\ out' = << Ev("update", "", t, tr.interimTranscript) >>
      ]_vars

\* setTranscript was called during a recording with interim text pending
C20_Witness ==
    /\ op.name = "setTranscript"
    /\ tr.isRecording
    /\ tr.interimTranscript # <<>>
    /\ getTranscript(tr) \in WSSetTexts

\* C21: clear() sets both finalTranscript and interimTranscript to empty
\* and invokes onTranscriptUpdate with {final: '', interim: ''} before it
\* returns, from every prior state: right after clear() both fields are
\* empty and the only callback invoked was that notification.
C21_ClearResetsAndNotifies ==
    (op.name = "clear") =>
        /\ tr.finalTranscript = <<>>
        /\ tr.interimTranscript = <<>>
        /\ out = << Ev("update", "", <<>>, <<>>) >>

\* clear() was called while a recording was running
C21_Witness ==
    /\ op.name = "clear"
    /\ tr.isRecording
    /\ tr.finalTranscript = <<>>
    /\ \/ env.recState = "live"
       \/ hist.dispatched # <<>>

(***************************************************************************)
(* Properties of the chunk recorder.                                       *)
(***************************************************************************)
\* C22: while a recording session is active, audio delivered by the hardware
\* is never dropped at a chunk boundary: at every moment between
\* startRecording() and stopRecording() the MediaRecorder is in state
\* 'recording', so that whatever the microphone delivers is accumulated.
C22_AlwaysAccumulating ==
    (tr.audioProcessor /\ ap.isRecording) => ap.mediaRecorder = "recording"

\* stopRecording() is about to run on an active recorder that holds audio
activeWithAudio ==
    /\ tr.audioProcessor
    /\ ap.isRecording
    /\ ap.mediaRecorder = "recording"
    /\ env.mrBuffer > 0

\* what C23 says of every step but the end of a conversion: stopRecording()
\* on an active recorder with audio cancels the timer and finalises the
\* audio into one stop event, that event becomes one blob under conversion,
\* chunks are emitted by the end of a conversion only, and a recorder that
\* is not recording is never restarted.
stopFinalises ==
    /\ (op'.name = "stop" /\ activeWithAudio) =>
          /\ ~ap'.isRecording
          /\ ap'.chunkTimer # "armed"
          /\ ap'.mediaRecorder = "inactive"
          /\ env'.mrEvents = Append(env.mrEvents, env.mrBuffer)
    /\ (op'.name = "onstop" /\ Head(env.mrEvents) > 0) =>
          /\ env'.mrEvents = Tail(env.mrEvents)
          /\ env'.decoding =
                Append(env.decoding, SumSeq(ap.chunks) + Head(env.mrEvents))
          /\ hist'.nextSeq = hist.nextSeq
    /\ hist'.nextSeq # hist.nextSeq => op'.name = "converted"
    /\ (~ap'.isRecording /\ ap.mediaRecorder # "recording") =>
          ap'.mediaRecorder # "recording"

\* C23 as stated: stopRecording() on an active recorder that holds partially
\* accumulated audio causes exactly one final chunk containing that audio to
\* be emitted through onChunkReady, after which no further chunk is emitted
\* and the recorder is not restarted: the conversion of a blob that ends
\* while the recorder is stopped always hands one chunk to onChunkReady.
C23_FinalChunkEmitted ==
    [][/\ stopFinalises
       /\ (op'.name = "converted" /\ ~ap.isRecording) =>
             hist'.nextSeq = hist.nextSeq + 1
      ]_vars

\* C23, amended: the conversion of the final blob ends in exactly one of
\* two ways, one chunk handed to onChunkReady or 'Error processing audio
\* chunk' reported through onError with no chunk emitted.
C23_FinalChunkEmittedOrReported ==
    [][/\ stopFinalises
       /\ (op'.name = "converted" /\ ~ap.isRecording) =>
             \/ hist'.nextSeq = hist.nextSeq + 1
             \/ /\ hist'.nextSeq = hist.nextSeq
                /\ out' = << Ev("error", "Error processing audio chunk",
                                <<>>, <<>>) >>
                /\ tr' = tr
      ]_vars

\* the final chunk of a stopped recording has just been emitted
C23_Witness ==
    /\ op.name = "converted"
    /\ hist.stopped
    /\ ~ap.isRecording
    /\ ap.mediaRecorder = "inactive"
    /\ hist.nextSeq > 1
    /\ ~finalising
    /\ ~EmittedCb("error")

C25_TrackLossForcesStop ==
    (env.trackEnded /\ env.mrEvents = <<>> /\ env.decoding = <<>>) =>
        /\ ~ap.isRecording
        /\ ap.chunkTimer # "armed"
        /\ ~ap.stream

\* C26: at most one hardware capture stream is held open by the chunk
\* recorder at any time, including when start() is called again while an
\* earlier call is still waiting for the microphone or for the model: the
\* streams acquired and not yet stopped never number more than one.
C26_OneStreamOpen == env.liveTracks <= 1

\* C27: every chunk the recorder emits through onChunkReady is handed to the
\* transcription backend exactly once: each chunk emitted so far is either
\* still in the queue or has been dispatched, never both, and no chunk has
\* been dispatched twice.
C27_ConsumedExactlyOnce ==
    /\ \A s \in 1..(hist.nextSeq - 1) :
          (\E k \in 1..Len(tr.processingQueue) :
              tr.processingQueue[k].seq = s)
          # (\E k \in 1..Len(hist.dispatched) : hist.dispatched[k] = s)
    /\ \A j, k \in 1..Len(hist.dispatched) :
          hist.dispatched[j] = hist.dispatched[k] => j = k

(***************************************************************************)
(* AudioProcessor.convertBlobToPCM and resample on sample values.          *)
(* Samples are rationals num/den, so that sums and averages are exact;     *)
(* den = 0 stands for NaN, the value of 0 / 0.  Sample rates are Hz.       *)
(***************************************************************************)
MaxSamples == 5

TargetRate == 16000

Rates == { 8000, 16000, 44100, 48000 }

Rat(n, d) == [num |-> n, den |-> d]

Samples == { Rat(-1, 1), Rat(2, 1) }

RatAdd(a, b) == Rat(a.num * b.den + b.num * a.den, a.den * b.den)

\* accum / count
RatDiv(a, k) == Rat(a.num, a.den * k)

RatEq(a, b) == a.num * b.den = b.num * a.den

IsNaN(a) == a.den = 0

\* Math.round(n / d) for n >= 0 and d > 0: halves round up
round(n, d) == (2 * n + d) \div (2 * d)

\* the inner loop: accum and count over i = from .. to - 1 (0-based)
RECURSIVE accumulate(_, _, _, _)
accumulate(audioData, i, end, acc) ==
    IF i < end /\ i < Len(audioData)
    THEN accumulate(audioData, i + 1, end,
                    [accum |-> RatAdd(acc.accum, audioData[i + 1]),
                     count |-> acc.count + 1])
    ELSE acc

\* the outer loop: while (offsetResult < result.length)
RECURSIVE resampleLoop(_, _, _, _, _, _, _)
resampleLoop(audioData, fromSampleRate, toSampleRate, newLength, offsetResult, offsetBuffer, result) ==
    IF offsetResult < newLength
    THEN LET nextOffsetBuffer ==
                 round((offsetResult + 1) * fromSampleRate, toSampleRate)
             acc == accumulate(audioData, offsetBuffer, nextOffsetBuffer,
                               [accum |-> Rat(0, 1), count |-> 0])
         IN  resampleLoop(audioData, fromSampleRate, toSampleRate, newLength,
                          offsetResult + 1, nextOffsetBuffer,
                          Append(result, RatDiv(acc.accum, acc.count)))
    ELSE result

\* variant: equal rates go through the shortcut one sample short
resample_shortcutDropsLast(audioData, fromSampleRate, toSampleRate) ==
    IF fromSampleRate = toSampleRate
    THEN SubSeq(audioData, 1, Len(audioData) - 1)
    ELSE resampleLoop(audioData, fromSampleRate, toSampleRate,
                      round(Len(audioData) * toSampleRate, fromSampleRate),
                      0, 0, <<>>)

\* sampleRateRatio = fromSampleRate / toSampleRate, so that
\* audioData.length / sampleRateRatio is length * toSampleRate / fromSampleRate
resample(audioData, fromSampleRate, toSampleRate) ==
    IF fromSampleRate = toSampleRate
    THEN audioData
    ELSE resampleLoop(audioData, fromSampleRate, toSampleRate,
                      round(Len(audioData) * toSampleRate, fromSampleRate),
                      0, 0, <<>>)

\* variant: the two channels are laid end to end
mixdown_concatenates(left, right) == left \o right

\* "Mix down to mono if stereo"
mixdown(left, right) ==
    [i \in 1..Len(left) |-> RatDiv(RatAdd(left[i], right[i]), 2)]

\* convertBlobToPCM from the decoded audioBuffer on
convertBlobToPCM(audioBuffer) ==
    LET channelData == IF Len(audioBuffer.channels) = 1
                       THEN audioBuffer.channels[1]
                       ELSE mixdown(audioBuffer.channels[1],
                                    audioBuffer.channels[2])
    IN  IF audioBuffer.sampleRate # TargetRate
        THEN resample(channelData, audioBuffer.sampleRate, TargetRate)
        ELSE channelData

\* decoded audio buffers: one or two channels of the same length
AudioBuffers ==
    UNION { { <<c>> : c \in [1..n -> Samples] }
            \cup { <<l, r>> : l \in [1..n -> Samples],
                             r \in [1..n -> Samples] } : n \in 0..MaxSamples }

InitResample ==
    /\ backend = "turbo"
    /\ tr = NewTranscriber(backend)
    /\ ap = NewAudioProcessor
    /\ env = NewEnv
    /\ out = <<>>
    /\ op = [name |-> "new", ret |-> "none"]
    /\ hist = NewHist
    /\ pcm \in [ stage : {"decoded"}, channels : AudioBuffers,
                 sampleRate : Rates, toRate : Rates, result : {<<>>} ]
    /\ app = NewApp(FALSE)

\* this.resample(channel 0, sampleRate, toRate)
Resample ==
    /\ pcm.stage = "decoded"
    /\ pcm' = [pcm EXCEPT !.stage = "resampled",
                          !.result = resample(pcm.channels[1],
                                              pcm.sampleRate, pcm.toRate)]
    /\ UNCHANGED <<backend, tr, ap, env, out, op, hist, app>>

ConvertBlobToPCM ==
    /\ pcm.stage = "decoded"
    /\ pcm' = [pcm EXCEPT !.stage = "converted",
                          !.result = convertBlobToPCM(pcm)]
    /\ UNCHANGED <<backend, tr, ap, env, out, op, hist, app>>

NextResample == Resample \/ ConvertBlobToPCM

SpecResample == InitResample /\ [][NextResample]_vars

\* C28: resample(samples, r, r) returns its input unchanged for every rate r
\* and every sample sequence, including the empty one.
C28_EqualRatesIdentity ==
    (pcm.stage = "resampled" /\ pcm.sampleRate = pcm.toRate) =>
        pcm.result = pcm.channels[1]

\* resample was applied with equal rates to a sequence of MaxSamples samples
C28_Witness ==
    /\ pcm.stage = "resampled"
    /\ pcm.sampleRate = pcm.toRate
    /\ Len(pcm.channels[1]) = MaxSamples
    /\ Len(pcm.result) = MaxSamples

\* the window of output i (0-based) as the specification gives it: the input
\* indices in [round(i * ratio), round((i + 1) * ratio)), ratio = from / to
window(i, n, fromRate, toRate) ==
    { k \in 0..(n - 1) : /\ round(i * fromRate, toRate) <= k
                         /\ k < round((i + 1) * fromRate, toRate) }

RECURSIVE sumOver(_, _)
sumOver(audioData, idx) ==
    IF idx = {}
    THEN Rat(0, 1)
    ELSE LET k == CHOOSE k \in idx : TRUE
         IN  RatAdd(audioData[k + 1], sumOver(audioData, idx \ {k}))

\* C29: for fromRate different from toRate, resample produces
\* round(length * toRate / fromRate) outputs, and output i is the average
\* of exactly the input samples whose index lies in
\* [round(i * ratio), round((i + 1) * ratio)): every output is a number,
\* the sum of the samples of its window divided by their count.
C29_WindowAverages ==
    (pcm.stage = "resampled" /\ pcm.sampleRate # pcm.toRate) =>
        LET audioData == pcm.channels[1]
            n == Len(audioData)
        IN  /\ Len(pcm.result) = round(n * pcm.toRate, pcm.sampleRate)
            /\ \A i \in 0..(Len(pcm.result) - 1) :
                  LET idx == window(i, n, pcm.sampleRate, pcm.toRate)
                  IN  /\ idx # {}
                      /\ ~IsNaN(pcm.result[i + 1])
                      /\ RatEq(pcm.result[i + 1],
                               RatDiv(sumOver(audioData, idx),
                                      Cardinality(idx)))

\* C30: for any two-channel input the mono mixdown, done before resampling,
\* has the same length as each channel, so the buffer convertBlobToPCM
\* returns is as long as the result of resampling either channel alone to
\* the target rate.
C30_MixdownKeepsLength ==
    (pcm.stage = "converted" /\ Len(pcm.channels) = 2) =>
        LET left == pcm.channels[1]
            right == pcm.channels[2]
        IN  /\ Len(mixdown(left, right)) = Len(left)
            /\ Len(mixdown(left, right)) = Len(right)
            /\ Len(pcm.result) = Len(resample(left, pcm.sampleRate, TargetRate))
            /\ Len(pcm.result) = Len(resample(right, pcm.sampleRate, TargetRate))

\* a two-channel buffer of MaxSamples samples at 48 kHz was converted
C30_Witness ==
    /\ pcm.stage = "converted"
    /\ Len(pcm.channels) = 2
    /\ Len(pcm.channels[1]) = MaxSamples
    /\ pcm.sampleRate = 48000
    /\ Len(pcm.result) = round(MaxSamples * TargetRate, 48000)
    /\ pcm.result # <<>>

(***************************************************************************)
(* Properties of model loading.                                            *)
(***************************************************************************)
\* C31: a model-load operation that does not complete is reported as failed
\* once the maximum load time has elapsed, in either chunk-based backend: no
\* loadModel call is still pending after its maximum load time, and the step
\* that ends a load at the deadline reports 'Model loading timeout' through
\* onError and makes start() return false.
C31_LoadBounded ==
    /\ env.loadOverdue = 0
    /\ op.name = "loadTimeout" =>
          /\ op.ret = "false"
          /\ out = << Ev("error", "Model loading timeout", <<>>, <<>>) >>

(***************************************************************************)
(* Properties of the controller after stop().                              *)
(***************************************************************************)
\* C32: after WebSpeechTranscriber.stop() has returned, the controller stays
\* stopped until the next start(): isRecording is false, no 'recording'
\* status is emitted and no recognition session is running, also when
\* stop() was called after recognition.start() and before the session's
\* 'start' event.
C32_StopStaysStopped ==
    hist.stopped =>
        /\ ~tr.isRecording
        /\ ~Emitted("status", "recording")
        /\ env.recState # "live"

\* stop() ran between recognition.start() and the 'start' event; the event
\* then set isRecording and reported 'recording' with auto-restart off
C32_LateStart ==
    /\ op.name = "onstart"
    /\ hist.stopped
    /\ hist.starts = 1
    /\ tr.isRecording
    /\ ~tr.shouldRestart
    /\ Emitted("status", "recording")

\* C33: after clear() on a chunk-based transcriber the result of an
\* inference call that was in flight when clear() ran is not appended to
\* the cleared transcript: when the task that follows clear() is the
\* completion of an inference call (a call clear() found in flight, since
\* clear() dispatches nothing), finalTranscript is still empty after it.
C33_ClearedStaysEmpty ==
    [][(op.name = "clear" /\ op'.name = "result")
          => tr'.finalTranscript = <<>>]_vars

(***************************************************************************)
(* Properties of the chunk queue under fair scheduling.                    *)
(***************************************************************************)
\* C34: under fairness, with every inference call completing and neither
\* clear() nor destroy() called, every chunk enqueued is eventually
\* dispatched to the backend, and after stop() (as long as start() is not
\* called again) the queue eventually is Idle with an empty FIFO and
\* 'stopped' as the last status emitted.
C34_DrainsAndStops ==
    /\ \A s \in 1..MaxAudio :
          (\E k \in 1..Len(tr.processingQueue) : tr.processingQueue[k].seq = s)
             ~> (\E k \in 1..Len(hist.dispatched) : hist.dispatched[k] = s)
    /\ (op.name = "stop")
          ~> \/ ~hist.stopped
             \/ /\ ~tr.isProcessing
                /\ tr.processingQueue = <<>>
                /\ env.inflight = {}
                /\ app.status = "stopped"

\* C35: whenever no inference call is outstanding (isProcessing false) the
\* pending FIFO is empty, and while the worker or pipeline exists
\* isProcessing is true exactly when a call is outstanding: a chunk that
\* arrives at an Idle queue is dispatched at once, each completion
\* dispatches the next queued chunk, and the queue returns to Idle only
\* with the FIFO empty.
C35_IdleMeansEmpty ==
    /\ ~tr.isProcessing => tr.processingQueue = <<>>
    /\ (tr.worker \/ tr.pipeline) => (tr.isProcessing <=> env.inflight # {})

\* the second of two chunks was dispatched by the completion of the first,
\* and its own completion returned the queue to Idle
C35_Witness ==
    /\ op.name \in {"result", "error"}
    /\ Len(hist.dispatched) >= 2
    /\ ~tr.isProcessing
    /\ tr.processingQueue = <<>>
    /\ env.inflight = {}
    /\ tr.isRecording

\* C36: the last status emitted by a chunk-based transcriber is
\* 'processing' only while an inference call is outstanding, and when a
\* completion drains the queue to Idle while recording is active the status
\* is 'recording' again.
C36_ProcessingOnlyWhileBusy ==
    /\ app.status = "processing" => env.inflight # {}
    /\ (op.name \in {"result", "error"} /\ ~tr.isProcessing
          /\ tr.isRecording) => app.status = "recording"

(***************************************************************************)
(* Properties of the application around the recognition controller.        *)
(***************************************************************************)
\* C37: whenever LectureTranscriberApp.isRecording is true the transcriber
\* is recording or restarting (a session is open or starting, or a restart
\* or retry timer is pending), and after a fatal recognition error has
\* forced the transcriber to stop the application is not recording either.
C37_AppFollowsTranscriber ==
    /\ app.isRecording =>
          \/ tr.isRecording
          \/ env.recState = "live"
          \/ env.timers # <<>>
    /\ hist.fatal => ~app.isRecording

\* after a fatal error stopped the transcriber, the next click on the start
\* button was rejected as 'Already recording'
C37_Rejected ==
    /\ op = [name |-> "start", ret |-> "already"]
    /\ hist.fatal
    /\ app.isRecording
    /\ ~tr.isRecording
    /\ ~tr.shouldRestart
    /\ env.recState = "inactive"
    /\ env.timers = <<>>
    /\ env.acquireWaiters = 0

\* C38: after LectureTranscriberApp.stopRecording() has completed the VU
\* meter holds no open microphone stream and runs no animation loop,
\* whenever its pending start() settles: while the application is not
\* recording, the VU meter has no stream whose tracks are live and does not
\* animate.
C38_MeterReleased ==
    ~app.isRecording => /\ app.vuTracks = 0
                        /\ ~app.vuAnimating

\* the meter's getUserMedia resolved after stopRecording(): the stream is
\* open and the loop runs with the recording stopped
C38_LateMeter ==
    /\ op.name = "vuStart"
    /\ hist.stopped
    /\ hist.starts = 1
    /\ ~app.isRecording
    /\ app.status = "stopped"
    /\ app.vuStream
    /\ app.vuTracks = 1
    /\ app.vuAnimating
    /\ app.vuPending = 0

(***************************************************************************)
(* Properties of the restart timers.                                       *)
(***************************************************************************)
\* C39: in the continuous recognition controller at most one restart or
\* retry timer is pending at any time, and at most one recognition.start()
\* call per session end opens a session, for every interleaving of onend,
\* onerror, timer firings, stop() and start().
C39_OneTimerOneStart ==
    /\ Len(env.timers) <= 1
    /\ hist.cycle.attempts - hist.cycle.threw <= 1

\* the restart attempt threw and armed the retry timer while a session
\* opened by a second start() was ending; the end of that session armed a
\* restart timer next to it
C39_StaleRetry ==
    /\ op.name = "onend"
    /\ hist.starts = 2
    /\ Len(env.timers) = 2
    /\ env.timers[1].kind = "retry"
    /\ env.timers[2].kind = "restart"
    /\ wantsRecording
    /\ env.acquireWaiters = 0

\* C40: for every call of resample with a non-empty input and fromRate
\* different from toRate, made directly or by convertBlobToPCM, every output
\* index averages at least one input sample: its window clipped to the input
\* length is not empty, so the divisor count is not 0 and no output is NaN.
C40_NoEmptyWindow ==
    LET called == \/ pcm.stage = "resampled" /\ pcm.sampleRate # pcm.toRate
                  \/ pcm.stage = "converted" /\ pcm.sampleRate # TargetRate
        toRate == IF pcm.stage = "resampled" THEN pcm.toRate ELSE TargetRate
        n == Len(pcm.channels[1])
    IN  (called /\ n > 0) =>
            \A i \in 0..(Len(pcm.result) - 1) :
                /\ window(i, n, pcm.sampleRate, toRate) # {}
                /\ ~IsNaN(pcm.result[i + 1])

\* convertBlobToPCM resampled one sample of an 8 kHz buffer to 16 kHz: two
\* outputs, the first an average of the sample and the second 0 / 0
C40_UpsampledNaN ==
    /\ pcm.stage = "converted"
    /\ pcm.sampleRate = 8000
    /\ Len(pcm.channels) = 1
    /\ Len(pcm.channels[1]) = 1
    /\ Len(pcm.result) = 2
    /\ ~IsNaN(pcm.result[1])
    /\ IsNaN(pcm.result[2])
    /\ window(1, 1, 8000, TargetRate) = {}

====
